---------------------------- MODULE Spec2Model ----------------------------
(***************************************************************************)
(* Model of the playground-sync prompt relay:                              *)
(*   - PromptStore (store.ts, bundled after cli.ts): the in-memory queue;  *)
(*   - server.ts: the HTTP ingestion endpoint, the SSE broadcaster and the *)
(*     MCP tool handlers (get_prompt, list_pending, clear, watch);         *)
(*   - burst.ts: the HTTP endpoint of burst mode and burstLoop.            *)
(*                                                                         *)
(* Execution model: Node's single-threaded event loop.  Every action below *)
(* is one run-to-completion callback: the code between two awaits (or one  *)
(* whole synchronous handler).  Time is the value of Date.now() in         *)
(* milliseconds; a timer (setTimeout) fires at its due time, and the clock *)
(* does not pass a due timer.  Callbacks take no time.                     *)
(***************************************************************************)
EXTENDS Integers, Sequences, FiniteSets, TLC

VARIABLES
    prompts,      \* PromptStore.prompts: the queue, a sequence of records
    now,          \* Date.now(), in milliseconds
    nAdded,       \* number of records ever created (the identity of the next object)
    added,        \* history (store-level runs): the records add created, in order
    popped,       \* history (store-level runs): the records removeOldest returned
    sseClients,   \* the Set<ServerResponse> of open /events responses
    inbox,        \* per connection slot: the messages written to the response
                  \* that is or was last open in it (res.write)
    emitted,      \* the broadcastEvent calls of the last callback, in call order
    reply,        \* the last reply sent: an HTTP response or a tool result
    watch,        \* per playground_watch call slot: its position and outcome
    returned,     \* history: identities of the records returned by get_prompt or watch
    delivered,    \* history: identities of the records watch calls returned, in order
    removed,      \* history: the records removed from the queue, and by which operation
    burst,        \* burstLoop's position, its snapshot and the invocations made
    boot          \* startup: the state of the HTTP listener, of the MCP server
                  \* and of the process

vars ==
    <<prompts, now, nAdded, added, popped, sseClients, inbox, emitted, reply,
      watch, returned, delivered, removed, burst, boot>>

(***************************************************************************)
(* Bounds of the model.                                                    *)
(***************************************************************************)
MaxPrompts == 2
MaxTicks == 2
MaxIdlePolls == 1
NumWatchers == 2
NumClients == 2

(***************************************************************************)
(* Program constants.                                                      *)
(***************************************************************************)
WATCH_POLL_MS == 1000
WATCH_DEFAULT_TIMEOUT_SEC == 300
WATCH_MAX_TIMEOUT_SEC == 600
MS_PER_SEC == 1000
BURST_POLL_INTERVAL_MS == 2000
BURST_WINDOW_STEPS == 10
BURST_WINDOW_STEP_MS == 1000

\* The clock advances in steps of half a poll interval, so that calls and
\* submissions can fall between two polls of a sleeping watch.
TickMs == WATCH_POLL_MS \div 2
MaxTime == MaxTicks * TickMs

Watchers == 1..NumWatchers
Clients == 1..NumClients

(***************************************************************************)
(* JSON values, as JSON.parse produces them, tagged by their JS type.      *)
(***************************************************************************)
JAbsent == <<"undefined">>
JNull == <<"null">>
JStr(s) == <<"string", s>>
JNum(n) == <<"number", n>>
JObj(p, u, pa) == <<"object", [prompt |-> p, url |-> u, pathname |-> pa]>>
Unparseable == <<"unparseable">>

\* typeof v === "string" / "number"
IsString(v) == v[1] = "string"
IsNumber(v) == v[1] = "number"

\* JS truthiness: undefined, null, "" and 0 are falsy
Truthy(v) ==
    CASE v[1] = "string" -> v[2] # ""
      [] v[1] = "number" -> v[2] # 0
      [] v[1] = "object" -> TRUE
      [] OTHER -> FALSE

\* v || d
OrElse(v, d) == IF Truthy(v) THEN v ELSE d

\* Property access payload.name on a parsed non-null value: only objects
\* carry the fields; primitives give undefined.
Field(payload, name) ==
    IF payload[1] = "object" THEN payload[2][name] ELSE JAbsent

\* The random suffix Math.random().toString(36).slice(2, 8) of an id
RandomSuffixes == {"k3x9qa", "0zz81m"}

(***************************************************************************)
(* PromptStore                                                             *)
(***************************************************************************)
\* The JS value undefined, where a record is expected
undefined ==
    [id |-> <<>>, prompt |-> JAbsent, url |-> JAbsent, pathname |-> JAbsent,
     timestamp |-> -1, obj |-> 0]

\* The entry add builds: {...prompt, id: `p_${Date.now()}_${random}`, timestamp}.
\* obj is the identity of the JS object (not a field of it).
NewEntry(prompt, url, pathname, t, rnd, ident) ==
    [id |-> <<"p", t, rnd>>, prompt |-> prompt, url |-> url,
     pathname |-> pathname, timestamp |-> t, obj |-> ident]

\* Faulty variant of add: unshift in place of push
StoreAdd_Unshift(ps, entry) == <<entry>> \o ps

\* this.prompts.push(entry)
StoreAdd(ps, entry) == Append(ps, entry)

\* Faulty variant of getOldest: the newest record
StoreGetOldest_Newest(ps) == IF ps = <<>> THEN undefined ELSE ps[Len(ps)]

\* return this.prompts[0]
StoreGetOldest(ps) == IF ps = <<>> THEN undefined ELSE ps[1]

\* Faulty variant of getAll: only the oldest record
StoreGetAll_OldestOnly(ps) == IF ps = <<>> THEN <<>> ELSE <<Head(ps)>>

\* return [...this.prompts]
StoreGetAll(ps) == ps

\* return this.prompts.length
StoreCount(ps) == Len(ps)

\* this.prompts = []
StoreClear(ps) == <<>>

\* this.prompts.shift(): the value returned, and the array left
ShiftResult(ps) == IF ps = <<>> THEN undefined ELSE Head(ps)
\* Faulty variants of removeOldest: it leaves the array as it is (a peek);
\* it drops the last element (pop in place of shift)
ShiftRest_Peek(ps) == ps
ShiftRest_DropLast(ps) == IF ps = <<>> THEN <<>> ELSE SubSeq(ps, 1, Len(ps) - 1)

ShiftRest(ps) == IF ps = <<>> THEN <<>> ELSE Tail(ps)

Objs(ps) == {ps[i].obj : i \in 1..Len(ps)}

(***************************************************************************)
(* Event broadcaster (server.ts and burst.ts: broadcastEvent)              *)
(***************************************************************************)
NoId == <<>>

\* The SSE message `event: ${event}\ndata: ${JSON.stringify(data)}\n\n`
Message(event, status, id) == [event |-> event, status |-> status, id |-> id]

StatusMsg(status) == Message("status", status, NoId)
ReceivedMsg(id) == Message("status", "received", id)
ConnectedMsg == Message("connected", "ok", NoId)

\* Faulty variant: the loop ends after the first client
Broadcast_FirstOnly(boxes, clients, msgs) ==
    [c \in Clients |->
        IF c \in clients /\ \A d \in clients : c <= d
        THEN boxes[c] \o msgs ELSE boxes[c]]

\* for (const client of sseClients) client.write(message): the inboxes after
\* the messages msgs were broadcast, one after the other
Broadcast(boxes, clients, msgs) ==
    [c \in Clients |-> IF c \in clients THEN boxes[c] \o msgs ELSE boxes[c]]

(***************************************************************************)
(* HTTP endpoint of interactive mode (server.ts: createHttpServer)         *)
(***************************************************************************)
Response400(err) ==
    [route |-> "/prompt", status |-> 400, error |-> err, success |-> FALSE,
     id |-> NoId, pending |-> -1]

Response200(id) ==
    [route |-> "/prompt", status |-> 200, error |-> "", success |-> TRUE,
     id |-> id, pending |-> -1]

ResponseHealth(n) ==
    [route |-> "/health", status |-> 200, error |-> "", success |-> FALSE,
     id |-> NoId, pending |-> n]

\* JSON.parse(body) throws, or destructuring the parsed null throws: the
\* catch block answers 400 "Invalid JSON"
ParseFails(body) == body = Unparseable \/ body = JNull

\* Faulty variant: only the type is tested, the empty text passes
PromptRejected_TypeOnly(body) == ~IsString(Field(body, "prompt"))

\* if (!prompt || typeof prompt !== "string") -> 400 "prompt is required"
PromptRejected(body) ==
    LET prompt == Field(body, "prompt")
    IN  ~Truthy(prompt) \/ ~IsString(prompt)

\* The request reaches store.add
Accepted(body) == ~ParseFails(body) /\ ~PromptRejected(body)

\* store.add({prompt, url: pageUrl || "", pathname: pagePath || "/"})
PostEntry(body, rnd) ==
    NewEntry(Field(body, "prompt"),
             OrElse(Field(body, "url"), JStr("")),
             OrElse(Field(body, "pathname"), JStr("/")),
             now, rnd, nAdded + 1)

\* Faulty variant: the entry is stored before the prompt is validated
PostQueue_AddFirst(body, rnd) ==
    IF ~ParseFails(body) THEN StoreAdd(prompts, PostEntry(body, rnd)) ELSE prompts

\* The queue after the request
PostQueue(body, rnd) ==
    IF Accepted(body) THEN StoreAdd(prompts, PostEntry(body, rnd)) ELSE prompts

\* Faulty variant: the received event carries no id
PostEvents_NoId(body, rnd) ==
    IF Accepted(body) THEN <<StatusMsg("received")>> ELSE <<>>

\* The broadcasts of the request: broadcastEvent("status", {status: "received", id})
PostEvents(body, rnd) ==
    IF Accepted(body) THEN <<ReceivedMsg(PostEntry(body, rnd).id)>> ELSE <<>>

\* The response written
PostResponse(body, rnd) ==
    IF ParseFails(body) THEN Response400("Invalid JSON")
    ELSE IF PromptRejected(body) THEN Response400("prompt is required")
    ELSE Response200(PostEntry(body, rnd).id)

\* Replies, tagged by the channel they are sent on
NoReply == <<"none">>
HttpReply(response) == <<"http", response>>
ToolReply(content) == <<"tool", content>>
WatchReply(w, content) == <<"watch", content, w>>

\* Request bodies: not JSON; JSON that is no object; objects without a usable
\* prompt; objects with one, with and without url and pathname.
RejectedBodies ==
    { Unparseable, JNull, JNum(7), JStr("hi"),
      JObj(JAbsent, JAbsent, JAbsent),
      JObj(JStr(""), JStr("http://h/a"), JStr("/a")),
      JObj(JNum(5), JAbsent, JAbsent),
      JObj(JNull, JAbsent, JStr("/a")),
      JObj(JObj(JAbsent, JAbsent, JAbsent), JAbsent, JAbsent) }

AcceptedBodies ==
    { JObj(JStr("x"), JAbsent, JAbsent),
      JObj(JStr("add a footer"), JStr("http://h/design"), JStr("/design")),
      JObj(JStr("x"), JStr(""), JNull) }

Bodies == RejectedBodies \cup AcceptedBodies


\* POST /prompt: the req.on("end") callback
HttpPostPrompt(body, rnd) ==
    /\ Accepted(body) => nAdded < MaxPrompts
    /\ prompts' = PostQueue(body, rnd)
    /\ nAdded' = nAdded + Cardinality(Objs(prompts') \ Objs(prompts))
    /\ emitted' = PostEvents(body, rnd)
    /\ inbox' = Broadcast(inbox, sseClients, emitted')
    /\ reply' = HttpReply(PostResponse(body, rnd))
    /\ UNCHANGED <<boot, now, added, popped, sseClients, watch, returned, delivered,
                   removed, burst>>

\* GET /health
HttpGetHealth ==
    /\ reply' = HttpReply(ResponseHealth(StoreCount(prompts)))
    /\ emitted' = <<>>
    /\ UNCHANGED <<boot, prompts, now, nAdded, added, popped, sseClients, inbox, watch,
                   returned, delivered, removed, burst>>

\* GET /events: write the connected message, then sseClients.add(res).
\* A connection slot is reused only after its close callback ran.
HttpGetEvents(c) ==
    /\ c \notin sseClients
    /\ inbox' = [inbox EXCEPT ![c] = <<ConnectedMsg>>]
    /\ sseClients' = sseClients \cup {c}
    /\ emitted' = <<>>
    /\ UNCHANGED <<boot, prompts, now, nAdded, added, popped, reply, watch, returned,
                   delivered, removed, burst>>

\* Faulty variant: the close handler removes nothing
AfterClose_Leak(clients, c) == clients

\* sseClients.delete(res)
AfterClose(clients, c) == clients \ {c}

\* req.on("close", () => sseClients.delete(res))
SseClose(c) ==
    /\ c \in sseClients
    /\ sseClients' = AfterClose(sseClients, c)
    /\ emitted' = <<>>
    /\ UNCHANGED <<boot, prompts, now, nAdded, added, popped, inbox, reply, watch,
                   returned, delivered, removed, burst>>

(***************************************************************************)
(* MCP tool handlers (server.ts: createMcpServer, CallToolRequestSchema)   *)
(***************************************************************************)
\* The text content a tool call returns, by its parts
Content(kind, source, received, text, count, items) ==
    [kind |-> kind, source |-> source, received |-> received, text |-> text,
     count |-> count, items |-> items]

\* "No pending prompts from playgrounds."
NoPendingText == Content("none-pending", JAbsent, -1, JAbsent, -1, <<>>)

\* "No pending prompts."
NoPendingListText == Content("none-pending-list", JAbsent, -1, JAbsent, -1, <<>>)

\* "Watch timed out — no prompts received. ..."
WatchTimeoutText == Content("timeout", JAbsent, -1, JAbsent, -1, <<>>)

\* new Date(timestamp).toLocaleTimeString(): the time of day to the second
LocaleTime(ts) == ts \div MS_PER_SEC

\* `# Playground Prompt\n\n**Source:** ${p.url || p.pathname}\n**Received:** ...\n\n---\n\n${p.prompt}`
PromptText(p) ==
    Content("prompt", OrElse(p.url, p.pathname), LocaleTime(p.timestamp),
            p.prompt, -1, <<>>)

\* `${i + 1}. ${p.pathname} (${p.prompt.length} chars, ${time})`
ListItem(p, i) ==
    [n |-> i, pathname |-> p.pathname, chars |-> Len(p.prompt[2]),
     received |-> LocaleTime(p.timestamp)]

\* `Pending prompts:\n${list}`
PendingListText(all) ==
    Content("list", JAbsent, -1, JAbsent, -1,
            [i \in 1..Len(all) |-> ListItem(all[i], i)])

\* Faulty variant: the count is read after store.clear()
ClearedText_CountAfterClear(count) ==
    Content("nothing-to-clear", JAbsent, -1, JAbsent, 0, <<>>)

\* count > 0 ? `Cleared ${count} prompt(s).` : "No prompts to clear."
ClearedText(count) ==
    IF count > 0 THEN Content("cleared", JAbsent, -1, JAbsent, count, <<>>)
    ELSE Content("nothing-to-clear", JAbsent, -1, JAbsent, 0, <<>>)

\* The records of ps that are no longer in qs, as removed by the operation by
Gone(ps, qs, by) == {[obj |-> o, by |-> by] : o \in Objs(ps) \ Objs(qs)}

\* case "playground_get_prompt"
GetPrompt ==
    LET prompt == StoreGetOldest(prompts)
    IN  /\ emitted' = IF prompt = undefined THEN <<>>
                      ELSE <<StatusMsg("processing")>>
        /\ inbox' = Broadcast(inbox, sseClients, emitted')
        /\ reply' = ToolReply(IF prompt = undefined THEN NoPendingText
                              ELSE PromptText(prompt))
        /\ returned' = IF prompt = undefined THEN returned
                       ELSE returned \cup {prompt.obj}
        /\ UNCHANGED <<boot, prompts, now, nAdded, added, popped, sseClients, watch,
                       delivered, removed, burst>>

\* Faulty variant: listing takes the front record off the queue
ListedQueue_Shifted(ps) == ShiftRest(ps)

\* The queue after list_pending: the handler works on the copy getAll
\* returns and calls nothing else of the store
ListedQueue(ps) == ps

\* case "playground_list_pending"
ListPending ==
    LET all == StoreGetAll(prompts)
    IN  /\ reply' = ToolReply(IF Len(all) = 0 THEN NoPendingListText
                              ELSE PendingListText(all))
        /\ prompts' = ListedQueue(prompts)
        /\ emitted' = <<>>
        /\ UNCHANGED <<boot, now, nAdded, added, popped, sseClients, inbox,
                       watch, returned, delivered, removed, burst>>

\* case "playground_clear"
Clear ==
    LET count == StoreCount(prompts)
    IN  /\ prompts' = StoreClear(prompts)
        /\ removed' = removed \cup Gone(prompts, prompts', "clear")
        /\ emitted' = <<StatusMsg("done")>>
        /\ inbox' = Broadcast(inbox, sseClients, emitted')
        /\ reply' = ToolReply(ClearedText(count))
        /\ UNCHANGED <<boot, now, nAdded, added, popped, sseClients, watch, returned,
                       delivered, burst>>

(***************************************************************************)
(* playground_watch                                                        *)
(***************************************************************************)
Min(a, b) == IF a <= b THEN a ELSE b

\* A JSON number of seconds, held as its count of thousandths of a second
\* (Seconds(1, 500) is 1.5), so that timeoutSec * 1000 is that count.
Seconds(whole, thousandths) == JNum(whole * MS_PER_SEC + thousandths)

\* timeout_seconds arguments: absent, not a number, and numbers of seconds
\* (JSON has no NaN)
TimeoutArgs ==
    { JAbsent, JStr("5"), Seconds(-2, 0), Seconds(0, 0), Seconds(0, 500),
      Seconds(1, 0), Seconds(1, 500), Seconds(602, 0) }

\* Faulty variant: the maximum is not applied
TimeoutSec_NoClamp(arg) ==
    IF IsNumber(arg) THEN arg[2] ELSE WATCH_DEFAULT_TIMEOUT_SEC * MS_PER_SEC

\* Math.min(typeof a === "number" ? a : 300, 600), in thousandths
TimeoutSec(arg) ==
    Min(IF IsNumber(arg) THEN arg[2] ELSE WATCH_DEFAULT_TIMEOUT_SEC * MS_PER_SEC,
        WATCH_MAX_TIMEOUT_SEC * MS_PER_SEC)

\* const deadline = Date.now() + timeoutSec * 1000
Deadline(t, timeoutSec) == t + timeoutSec

\* Date.now() < deadline
BeforeDeadline(t, deadline) == t < deadline

\* Faulty variant: the queue is looked at only once the deadline has passed
WatchBranch_AfterDeadline(t, deadline, ps) ==
    IF BeforeDeadline(t, deadline) THEN "sleep"
    ELSE IF StoreGetOldest(ps) # undefined THEN "deliver" ELSE "timeout"

\* One pass from the loop condition to the next await or return:
\* the branch taken
WatchBranch(t, deadline, ps) ==
    IF BeforeDeadline(t, deadline)
    THEN IF StoreGetOldest(ps) # undefined THEN "deliver" ELSE "sleep"
    ELSE "timeout"

\* Faulty variant: processing is broadcast on every poll, before if (prompt)
WatchEvents_EveryPoll(branch) ==
    IF branch # "timeout" THEN <<StatusMsg("processing")>> ELSE <<>>

\* broadcastEvent("status", {status: "processing"}), inside if (prompt)
WatchEvents(branch) ==
    IF branch = "deliver" THEN <<StatusMsg("processing")>> ELSE <<>>

\* Faulty variant: store.clear() in place of store.removeOldest()
WatchQueue_Clear(branch, ps) == IF branch = "deliver" THEN StoreClear(ps) ELSE ps

\* store.removeOldest(), inside if (prompt)
WatchQueue(branch, ps) == IF branch = "deliver" THEN ShiftRest(ps) ELSE ps

\* The value the call returns on this pass
WatchResult(branch, ps) ==
    IF branch = "deliver" THEN PromptText(StoreGetOldest(ps))
    ELSE WatchTimeoutText

\* pc: idle (never called), sleeping (in setTimeout), returned.
\* arg, calledAt, deadline, wakeAt: of the call in flight.
\* outcome: of the last call of the slot, "prompt" or "timeout";
\* got: the identity of the record it returned; took, sent: the records
\* removed and the events published by the call so far.
IdleWatch ==
    [pc |-> "idle", arg |-> JAbsent, calledAt |-> 0, deadline |-> 0,
     wakeAt |-> 0, outcome |-> "", got |-> 0, took |-> 0, sent |-> 0]

WatchRun(w, arg, calledAt, deadline, took0, sent0) ==
    LET branch == WatchBranch(now, deadline, prompts)
        prompt == StoreGetOldest(prompts)
    IN  /\ emitted' = WatchEvents(branch)
        /\ inbox' = Broadcast(inbox, sseClients, emitted')
        /\ prompts' = WatchQueue(branch, prompts)
        /\ removed' = removed \cup Gone(prompts, prompts', "watch")
        /\ returned' = IF branch = "deliver"
                       THEN returned \cup {prompt.obj} ELSE returned
        /\ delivered' = IF branch = "deliver"
                        THEN Append(delivered, prompt.obj) ELSE delivered
        /\ reply' = IF branch = "sleep" THEN reply
                    ELSE WatchReply(w, WatchResult(branch, prompts))
        /\ watch' = [watch EXCEPT ![w] =
              [pc |-> IF branch = "sleep" THEN "sleeping" ELSE "returned",
               arg |-> IF branch = "sleep" THEN arg ELSE JAbsent,
               calledAt |-> IF branch = "sleep" THEN calledAt ELSE 0,
               deadline |-> IF branch = "sleep" THEN deadline ELSE 0,
               wakeAt |-> IF branch = "sleep" THEN now + WATCH_POLL_MS ELSE 0,
               outcome |-> CASE branch = "deliver" -> "prompt"
                             [] branch = "timeout" -> "timeout"
                             [] OTHER -> "",
               got |-> IF branch = "deliver" THEN prompt.obj ELSE 0,
               took |-> took0 + Cardinality(Objs(prompts) \ Objs(prompts')),
               sent |-> sent0 + Len(emitted')]]
        /\ UNCHANGED <<boot, now, nAdded, added, popped, sseClients, burst>>

\* case "playground_watch": the call, up to its first await or return
WatchCall(w, arg) ==
    /\ watch[w].pc # "sleeping"
    /\ WatchRun(w, arg, now, Deadline(now, TimeoutSec(arg)), 0, 0)

\* The setTimeout(resolve, 1000) of a sleeping call fires
WatchResume(w) ==
    /\ watch[w].pc = "sleeping"
    /\ watch[w].wakeAt <= now
    /\ WatchRun(w, watch[w].arg, watch[w].calledAt, watch[w].deadline,
                watch[w].took, watch[w].sent)

(***************************************************************************)
(* Time                                                                    *)
(***************************************************************************)
\* burstLoop does not run in interactive mode
BurstOff ==
    [pc |-> "off", wakeAt |-> 0, i |-> 0, idle |-> 0, openedAt |-> 0,
     snapshot |-> <<>>, invocations |-> <<>>]

\* No setTimeout callback is due
NoTimerDue ==
    /\ \A w \in Watchers : watch[w].pc = "sleeping" => watch[w].wakeAt > now
    /\ burst.pc \in {"sleeping", "window"} => burst.wakeAt > now

Tick ==
    /\ now < MaxTime
    /\ NoTimerDue
    /\ now' = now + TickMs
    /\ UNCHANGED <<boot, prompts, nAdded, added, popped, sseClients, inbox, emitted,
                   reply, watch, returned, delivered, removed, burst>>

\* The due times of the pending setTimeout callbacks
PendingTimers ==
    {watch[w].wakeAt : w \in {v \in Watchers : watch[v].pc = "sleeping"}}
    \cup (IF burst.pc \in {"sleeping", "window"} THEN {burst.wakeAt} ELSE {})

\* Nothing happens until the next timer is due
AwaitTimer ==
    /\ NoTimerDue
    /\ PendingTimers # {}
    /\ now' = CHOOSE t \in PendingTimers : \A u \in PendingTimers : t <= u
    /\ UNCHANGED <<boot, prompts, nAdded, added, popped, sseClients, inbox, emitted,
                   reply, watch, returned, delivered, removed, burst>>

(***************************************************************************)
(* Startup (server.ts: createHttpServer's listen and error callbacks,      *)
(* startServer; burst.ts: startBurstMode; cli.ts: the catch handlers)      *)
(***************************************************************************)
\* http: pending (listen called), listening, in-use (the server emitted
\* the error EADDRINUSE), error (it emitted another error);
\* mcp: off, connected (mcpServer.connect resolved);
\* proc: starting, running, exited (process.exit(1) in the catch of cli.ts)
Booting == [http |-> "pending", mcp |-> "off", proc |-> "starting"]

\* Interactive mode after a startup in which listen succeeded
Started == [http |-> "listening", mcp |-> "connected", proc |-> "running"]

\* Burst mode after a startup in which listen succeeded: no MCP server
BurstStarted == [http |-> "listening", mcp |-> "off", proc |-> "running"]

(***************************************************************************)
(* Interactive mode (cli.ts without --burst: startServer)                  *)
(***************************************************************************)
Init ==
    /\ prompts = <<>>
    /\ now = 0
    /\ nAdded = 0
    /\ added = <<>>
    /\ popped = <<>>
    /\ sseClients = {}
    /\ inbox = [c \in Clients |-> <<>>]
    /\ emitted = <<>>
    /\ reply = NoReply
    /\ watch = [w \in Watchers |-> IdleWatch]
    /\ returned = {}
    /\ delivered = <<>>
    /\ removed = {}
    /\ burst = BurstOff
    /\ boot = Started

\* Where ids play no part, every submission draws the same random suffix
OneSuffix == CHOOSE rnd \in RandomSuffixes : TRUE

\* The consumer as the protocol expects it: one MCP client, with at most one
\* watch call in flight (the first slot), which may still issue its other
\* tool calls while that call sleeps; the browser posts at any time.
ConsumerSlot == CHOOSE w \in Watchers : \A v \in Watchers : w <= v

Next ==
    \/ \E body \in Bodies : HttpPostPrompt(body, OneSuffix)
    \/ GetPrompt
    \/ ListPending
    \/ Clear
    \/ \E arg \in TimeoutArgs : WatchCall(ConsumerSlot, arg)
    \/ WatchResume(ConsumerSlot)
    \/ Tick

Spec == Init /\ [][Next]_vars

\* Concurrent watch calls: every slot may hold a call, against submissions.
\* The bodies are one of each outcome: unparseable, rejected, accepted.
WatchBodies ==
    { Unparseable, JObj(JStr(""), JAbsent, JAbsent),
      JObj(JStr("add a footer"), JStr("http://h/design"), JStr("/design")) }

\* The arguments that make a call time out at once, after one poll, or not
\* within the run
ShortTimeoutArgs ==
    { Seconds(-2, 0), Seconds(0, 0), Seconds(0, 500), Seconds(1, 0),
      Seconds(602, 0) }

NextWatch ==
    \/ \E body \in WatchBodies : HttpPostPrompt(body, OneSuffix)
    \/ \E w \in Watchers, arg \in ShortTimeoutArgs : WatchCall(w, arg)
    \/ \E w \in Watchers : WatchResume(w)
    \/ Tick

SpecWatch == Init /\ [][NextWatch]_vars

\* One browser page: it holds at most one /events connection
FirstClient == CHOOSE c \in Clients : \A d \in Clients : c <= d

\* The HTTP endpoint with the /events connection of one page, no consumer.
\* The requests all arrive within one millisecond, so that only the random
\* suffix tells the ids of the records apart.
NextHttp ==
    \/ \E body \in Bodies, rnd \in RandomSuffixes : HttpPostPrompt(body, rnd)
    \/ HttpGetHealth
    \/ HttpGetEvents(FirstClient)
    \/ SseClose(FirstClient)

SpecHttp == Init /\ [][NextHttp]_vars

\* The broadcaster with several pages connecting and disconnecting, against
\* the publishers of interactive mode: an accepted and a rejected
\* submission, and clear called on a queue that holds records
EventBodies == {Unparseable, JObj(JStr("x"), JAbsent, JStr("/a"))}

ClearPending ==
    /\ prompts # <<>>
    /\ Clear

NextEvents ==
    \/ \E body \in EventBodies, rnd \in RandomSuffixes : HttpPostPrompt(body, rnd)
    \/ ClearPending
    \/ \E c \in Clients : HttpGetEvents(c)
    \/ \E c \in Clients : SseClose(c)

SpecEvents == Init /\ [][NextEvents]_vars

\* The two queries, health and list_pending, against submissions from two
\* pages at different times, a page's /events connection, and clear
QueryBodies ==
    { JObj(JStr("x"), JAbsent, JAbsent),
      JObj(JStr("add a footer"), JStr("http://h/design"), JStr("/design")) }

NextQueries ==
    \/ \E body \in QueryBodies : HttpPostPrompt(body, OneSuffix)
    \/ HttpGetHealth
    \/ ListPending
    \/ ClearPending
    \/ HttpGetEvents(FirstClient)
    \/ SseClose(FirstClient)
    \/ Tick

SpecQueries == Init /\ [][NextQueries]_vars

\* A watch call against a queue that stays empty: nothing is submitted; the
\* call is made early in the run and time then runs from timer to timer.
EarlyWatchCall(arg) ==
    /\ now <= MaxTime
    /\ WatchCall(ConsumerSlot, arg)

NextWatchEmpty ==
    \/ \E arg \in TimeoutArgs : EarlyWatchCall(arg)
    \/ WatchResume(ConsumerSlot)
    \/ Tick
    \/ AwaitTimer

SpecWatchEmpty == Init /\ [][NextWatchEmpty]_vars

\* The consumer of the protocol: it calls watch with a positive timeout,
\* and calls it again when a call has returned; it calls no other tool.
\* (In the model it stops calling once the run is over and the queue is
\* empty.)  The timeouts end before the first poll after the call, at it,
\* between the first and the second, and at the third.
PositiveTimeoutArgs ==
    { Seconds(0, 500), Seconds(1, 0), Seconds(1, 500), Seconds(3, 0) }

KeepWatching(arg) ==
    /\ now <= MaxTime \/ prompts # <<>>
    /\ WatchCall(ConsumerSlot, arg)

NextWatchLoop ==
    \/ \E body \in WatchBodies : HttpPostPrompt(body, OneSuffix)
    \/ \E arg \in PositiveTimeoutArgs : KeepWatching(arg)
    \/ WatchResume(ConsumerSlot)
    \/ Tick
    \/ AwaitTimer

SpecWatchLoop == Init /\ [][NextWatchLoop]_vars

\* The event loop runs a due timer callback, an idle loop reaches its next
\* timer, and the consumer calls watch again
SpecWatchLoopFair ==
    /\ SpecWatchLoop
    /\ WF_vars(WatchResume(ConsumerSlot))
    /\ WF_vars(AwaitTimer)
    /\ WF_vars(\E arg \in PositiveTimeoutArgs : KeepWatching(arg))

(***************************************************************************)
(* Burst mode (cli.ts --burst: startBurstMode): burst.ts                   *)
(***************************************************************************)
\* The 200 answer of burst mode: {success: true}, without an id
BurstResponse200 ==
    [route |-> "/prompt", status |-> 200, error |-> "", success |-> TRUE,
     id |-> NoId, pending |-> -1]

\* The response written; the parse and the validation are those of server.ts
BurstPostResponse(body) ==
    IF ParseFails(body) THEN Response400("Invalid JSON")
    ELSE IF PromptRejected(body) THEN Response400("prompt is required")
    ELSE BurstResponse200

\* POST /prompt in burst mode: store.add, no broadcast
BurstPostPrompt(body, rnd) ==
    /\ Accepted(body) => nAdded < MaxPrompts
    /\ prompts' = PostQueue(body, rnd)
    /\ nAdded' = nAdded + Cardinality(Objs(prompts') \ Objs(prompts))
    /\ emitted' = <<>>
    /\ reply' = HttpReply(BurstPostResponse(body))
    /\ UNCHANGED <<boot, now, added, popped, sseClients, inbox, watch, returned,
                   delivered, removed, burst>>

\* `## Prompt ${i + 1} (from ${p.pathname})\n\n${p.prompt}`
Section(p, i) == [n |-> i, pathname |-> p.pathname, prompt |-> p.prompt]

\* `You have received ${prompts.length} prompt(s) ...:\n\n${combined}`, the
\* sections joined by "\n\n---\n\n"
FullPrompt(ps) ==
    [count |-> Len(ps), sections |-> [i \in 1..Len(ps) |-> Section(ps[i], i)]]

\* runClaudeCode resolves {success: code === 0} on close, {success: false}
\* on error
AgentOutcomes == {"exit-0", "exit-nonzero", "spawn-error"}
AgentSuccess(outcome) == outcome = "exit-0"

\* pc: sleeping (the poll interval's setTimeout), window (the countdown's
\* setTimeout, i as in the for loop), running (await runClaudeCode).
\* idle: the polls that found the queue empty (bounded in the model).
\* openedAt: when the poll of this iteration found the queue non-empty.
\* snapshot: the const prompts of the iteration; invocations: the calls of
\* runClaudeCode made, with the identities of the records in each.
BurstStart ==
    [pc |-> "sleeping", wakeAt |-> 0, i |-> 0, idle |-> 0, openedAt |-> 0,
     snapshot |-> <<>>, invocations |-> <<>>]

\* Faulty variant: the window is opened at every poll
PollFindsPrompts_Always(count) == TRUE

\* if (count > 0)
PollFindsPrompts(count) == count > 0

\* Top of while (true): count = store.count(); with count > 0 broadcast
\* collecting and start the countdown, else wait for the next poll
BurstPoll ==
    LET count == StoreCount(prompts)
    IN  /\ burst.pc = "sleeping"
        /\ burst.wakeAt <= now
        /\ count = 0 => burst.idle < MaxIdlePolls
        /\ emitted' = IF PollFindsPrompts(count)
                      THEN <<StatusMsg("collecting")>> ELSE <<>>
        /\ inbox' = Broadcast(inbox, sseClients, emitted')
        /\ burst' = IF PollFindsPrompts(count)
                    THEN [burst EXCEPT !.pc = "window",
                                       !.openedAt = now,
                                       !.i = BURST_WINDOW_STEPS,
                                       !.wakeAt = now + BURST_WINDOW_STEP_MS]
                    ELSE [burst EXCEPT !.idle = @ + 1,
                                       !.wakeAt = now + BURST_POLL_INTERVAL_MS]
        /\ reply' = NoReply
        /\ UNCHANGED <<boot, prompts, now, nAdded, added, popped, sseClients, watch,
                       returned, delivered, removed>>

\* One second of the countdown is over: i--; while i > 0 wait again; then
\* prompts = store.getAll() and, if there are any, broadcast processing and
\* call runClaudeCode(fullPrompt)
BurstWindowStep ==
    LET all == StoreGetAll(prompts)
    IN  /\ burst.pc = "window"
        /\ burst.wakeAt <= now
        /\ emitted' = IF burst.i - 1 > 0 \/ Len(all) = 0 THEN <<>>
                      ELSE <<StatusMsg("processing")>>
        /\ inbox' = Broadcast(inbox, sseClients, emitted')
        /\ burst' =
              IF burst.i - 1 > 0
              THEN [burst EXCEPT !.i = @ - 1,
                                 !.wakeAt = now + BURST_WINDOW_STEP_MS]
              ELSE IF Len(all) > 0
              THEN [burst EXCEPT !.pc = "running", !.i = 0, !.wakeAt = 0,
                                 !.snapshot = all]
              ELSE [burst EXCEPT !.pc = "sleeping", !.i = 0, !.openedAt = 0,
                                 !.wakeAt = now + BURST_POLL_INTERVAL_MS]
        /\ reply' = NoReply
        /\ UNCHANGED <<boot, prompts, now, nAdded, added, popped, sseClients, watch,
                       returned, delivered, removed>>

\* Faulty variant: the batch of a failed invocation is kept for a retry
FinishQueue_KeepOnFailure(outcome, ps) ==
    IF AgentSuccess(outcome) THEN StoreClear(ps) ELSE ps

\* store.clear() after the invocation, before if (result.success)
FinishQueue(outcome, ps) == StoreClear(ps)

\* Faulty variant: a failed invocation rejects, and the loop ends with it
AfterInvocation_StopOnFailure(outcome) ==
    IF AgentSuccess(outcome) THEN "sleeping" ELSE "stopped"

\* Where burstLoop goes once runClaudeCode has resolved: through both
\* branches of if (result.success) to the setTimeout of the next poll
AfterInvocation(outcome) == "sleeping"

\* Faulty variant: done and ready are broadcast only after a successful run
FinishEvents_OnlyOnSuccess(outcome) ==
    IF AgentSuccess(outcome) THEN <<StatusMsg("done"), StatusMsg("ready")>>
    ELSE <<>>

\* The broadcasts after the invocation: done, then (after the log line that
\* depends on result.success) ready
FinishEvents(outcome) == <<StatusMsg("done"), StatusMsg("ready")>>

\* runClaudeCode resolves: store.clear(), broadcast done, then ready, and
\* wait for the next poll
AgentFinish(outcome) ==
    /\ burst.pc = "running"
    /\ prompts' = FinishQueue(outcome, prompts)
    /\ removed' = removed \cup Gone(prompts, prompts', "burst")
    /\ emitted' = FinishEvents(outcome)
    /\ inbox' = Broadcast(inbox, sseClients, emitted')
    /\ burst' = [burst EXCEPT
          !.pc = AfterInvocation(outcome),
          !.wakeAt = now + BURST_POLL_INTERVAL_MS,
          !.openedAt = 0,
          !.snapshot = <<>>,
          !.invocations = Append(@, [fullPrompt |-> FullPrompt(burst.snapshot),
                                     objs |-> Objs(burst.snapshot),
                                     success |-> AgentSuccess(outcome)])]
    /\ reply' = NoReply
    /\ UNCHANGED <<boot, now, nAdded, added, popped, sseClients, watch, returned,
                   delivered>>

InitBurst ==
    /\ prompts = <<>>
    /\ now = 0
    /\ nAdded = 0
    /\ added = <<>>
    /\ popped = <<>>
    /\ sseClients = {}
    /\ inbox = [c \in Clients |-> <<>>]
    /\ emitted = <<>>
    /\ reply = NoReply
    /\ watch = [w \in Watchers |-> IdleWatch]
    /\ returned = {}
    /\ delivered = <<>>
    /\ removed = {}
    /\ burst = BurstStart
    /\ boot = BurstStarted

\* The submissions of burst mode: one that is rejected and two that are
\* accepted, from different pages
BurstBodies ==
    { Unparseable,
      JObj(JStr("x"), JAbsent, JAbsent),
      JObj(JStr("add a footer"), JStr("http://h/design"), JStr("/design")) }

NextBurst ==
    \/ \E body \in BurstBodies : BurstPostPrompt(body, OneSuffix)
    \/ BurstPoll
    \/ BurstWindowStep
    \/ \E outcome \in AgentOutcomes : AgentFinish(outcome)
    \/ Tick
    \/ AwaitTimer

SpecBurst == InitBurst /\ [][NextBurst]_vars

\* The event loop runs a due callback, an idle loop reaches its next timer,
\* and the external agent eventually exits or fails
SpecBurstFair ==
    /\ SpecBurst
    /\ WF_vars(BurstPoll)
    /\ WF_vars(BurstWindowStep)
    /\ WF_vars(AwaitTimer)
    /\ WF_vars(\E outcome \in AgentOutcomes : AgentFinish(outcome))

(***************************************************************************)
(* Startup of interactive mode: startServer from its call in cli.ts        *)
(***************************************************************************)
\* The codes of the errors server.listen can fail with
ListenErrors == {"EADDRINUSE", "EACCES"}

\* server.listen's callback: the port is bound, the promise resolves
ListenCallback ==
    /\ boot.proc = "starting"
    /\ boot.http = "pending"
    /\ boot' = [boot EXCEPT !.http = "listening"]
    /\ UNCHANGED <<prompts, now, nAdded, added, popped, sseClients, inbox,
                   emitted, reply, watch, returned, delivered, removed, burst>>

\* server.on("error"): with EADDRINUSE the promise resolves all the same;
\* with another code it rejects, startServer rejects, and the catch in
\* cli.ts calls process.exit(1)
ServerError(code) ==
    /\ boot.proc = "starting"
    /\ boot.http = "pending"
    /\ boot' = IF code = "EADDRINUSE"
               THEN [boot EXCEPT !.http = "in-use"]
               ELSE [boot EXCEPT !.http = "error", !.proc = "exited"]
    /\ UNCHANGED <<prompts, now, nAdded, added, popped, sseClients, inbox,
                   emitted, reply, watch, returned, delivered, removed, burst>>

\* After await createHttpServer: createMcpServer, and mcpServer.connect
\* resolves
McpConnect ==
    /\ boot.proc = "starting"
    /\ boot.http \in {"listening", "in-use"}
    /\ boot' = [boot EXCEPT !.mcp = "connected", !.proc = "running"]
    /\ UNCHANGED <<prompts, now, nAdded, added, popped, sseClients, inbox,
                   emitted, reply, watch, returned, delivered, removed, burst>>

\* A request is served once the port is bound
ServedPost(body) ==
    /\ boot.http = "listening"
    /\ HttpPostPrompt(body, OneSuffix)

\* The consumer calls tools once the MCP server is connected
ConsumerGetPrompt ==
    /\ boot.mcp = "connected"
    /\ GetPrompt

ConsumerListPending ==
    /\ boot.mcp = "connected"
    /\ ListPending

ConsumerClear ==
    /\ boot.mcp = "connected"
    /\ Clear

InitStartup ==
    /\ prompts = <<>>
    /\ now = 0
    /\ nAdded = 0
    /\ added = <<>>
    /\ popped = <<>>
    /\ sseClients = {}
    /\ inbox = [c \in Clients |-> <<>>]
    /\ emitted = <<>>
    /\ reply = NoReply
    /\ watch = [w \in Watchers |-> IdleWatch]
    /\ returned = {}
    /\ delivered = <<>>
    /\ removed = {}
    /\ burst = BurstOff
    /\ boot = Booting

NextStartup ==
    \/ ListenCallback
    \/ \E code \in ListenErrors : ServerError(code)
    \/ McpConnect
    \/ \E body \in WatchBodies : ServedPost(body)
    \/ ConsumerGetPrompt
    \/ ConsumerListPending
    \/ ConsumerClear
    \/ Tick

SpecStartup == InitStartup /\ [][NextStartup]_vars

(***************************************************************************)
(* PromptStore alone: add and removeOldest called directly                 *)
(***************************************************************************)
\* What a caller of add passes: Omit<PlaygroundPrompt, "id" | "timestamp">
StoreInputs ==
    { [prompt |-> JStr("x"), url |-> JStr(""), pathname |-> JStr("/")],
      [prompt |-> JStr("add a footer"), url |-> JStr("http://h/design"),
       pathname |-> JStr("/design")] }

\* store.add(prompt)
AddCall(p, rnd) ==
    LET entry == NewEntry(p.prompt, p.url, p.pathname, now, rnd, nAdded + 1)
    IN  /\ nAdded < MaxPrompts
        /\ prompts' = StoreAdd(prompts, entry)
        /\ nAdded' = nAdded + 1
        /\ added' = Append(added, entry)
        /\ UNCHANGED <<boot, now, popped, sseClients, inbox, emitted, reply, watch,
                       returned, delivered, removed, burst>>

\* store.removeOldest()
RemoveOldestCall ==
    /\ prompts' = ShiftRest(prompts)
    /\ popped' = IF ShiftResult(prompts) = undefined THEN popped
                 ELSE Append(popped, ShiftResult(prompts))
    /\ UNCHANGED <<boot, now, nAdded, added, sseClients, inbox, emitted, reply, watch,
                   returned, delivered, removed, burst>>

NextStore ==
    \/ \E p \in StoreInputs, rnd \in RandomSuffixes : AddCall(p, rnd)
    \/ RemoveOldestCall
    \/ Tick

SpecStore == Init /\ [][NextStore]_vars

(***************************************************************************)
(* Properties                                                              *)
(***************************************************************************)
IsPrefix(a, b) == Len(a) <= Len(b) /\ SubSeq(b, 1, Len(a)) = a

Range(f) == {f[i] : i \in DOMAIN f}

NoDuplicates(f) == \A i, j \in DOMAIN f : i # j => f[i] # f[j]

\* The step is a callback of the watch call in slot w
WatchStep(w) == (\E arg \in TimeoutArgs : WatchCall(w, arg)) \/ WatchResume(w)

\* C1: under any interleaving of add and removeOldest calls, the records
\* removeOldest has returned are, in order, a prefix of the records add has
\* created: none is skipped, none is reordered.
C1_Fifo == IsPrefix(popped, added)

\* Two records were added and both came back
C1_Witness == Len(popped) = 2 /\ popped[1].obj # popped[2].obj

C4_RemovedWereReturned == \A r \in removed : r.obj \in returned

\* C4, amended: a record that watch removes is the record that watch call
\* returns, in the same step; clear is the only other operation that removes
\* records, and it removes them whether or not they were returned.
C4_WatchRemovesWhatItReturns ==
    \A r \in removed :
        /\ r.by \in {"watch", "clear"}
        /\ r.by = "watch" => r.obj \in Range(delivered)

\* Watch removed one record and clear removed another that was never returned
C4_Witness ==
    /\ \E r \in removed : r.by = "watch"
    /\ \E r \in removed : r.by = "clear" /\ r.obj \notin returned

\* The request body carries a prompt that is a non-empty text
HasTextPrompt(body) ==
    /\ body[1] = "object"
    /\ body[2].prompt[1] = "string"
    /\ body[2].prompt[2] # ""

\* The step is the POST /prompt callback for this body
PostStep(body) == \E rnd \in RandomSuffixes : HttpPostPrompt(body, rnd)

\* C5: whenever POST /prompt answers 400, for an unparseable body as for a
\* missing, empty or non-text prompt, the queue is as it was before the
\* request and nothing was broadcast: no listener was written to.
C5_RejectedChangesNothing ==
    [][\A body \in Bodies :
          reply'[1] = "http" /\ reply'[2].status = 400 /\ PostStep(body) =>
              /\ prompts' = prompts
              /\ nAdded' = nAdded
              /\ emitted' = <<>>
              /\ inbox' = inbox]_vars

\* A 400 of each kind was answered with records queued and a listener open
C5_Witness ==
    /\ reply \in {HttpReply(Response400("Invalid JSON")),
                  HttpReply(Response400("prompt is required"))}
    /\ prompts # <<>>
    /\ sseClients # {}

\* C6: a POST /prompt whose body carries a non-empty text prompt appends
\* exactly one record at the back of the queue, the records before it
\* unchanged; the record has the prompt, the url (or "" without one) and the
\* pathname (or "/" without one); exactly one received event with the
\* record's id is broadcast, to every open listener; the answer is 200 with
\* success and that id.
C6_AcceptedAppendsOne ==
    [][\A body \in Bodies :
          HasTextPrompt(body) /\ PostStep(body) =>
              LET n == Len(prompts)
                  new == prompts'[n + 1]
              IN  /\ Len(prompts') = n + 1
                  /\ SubSeq(prompts', 1, n) = prompts
                  /\ new.prompt = body[2].prompt
                  /\ new.url = IF Truthy(body[2].url) THEN body[2].url
                               ELSE JStr("")
                  /\ new.pathname = IF Truthy(body[2].pathname)
                                    THEN body[2].pathname ELSE JStr("/")
                  /\ new.id \notin {NoId, undefined.id}
                  /\ emitted' = <<ReceivedMsg(new.id)>>
                  /\ \A c \in sseClients :
                        inbox'[c] = Append(inbox[c], ReceivedMsg(new.id))
                  /\ \A c \in Clients \ sseClients : inbox'[c] = inbox[c]
                  /\ reply' = HttpReply(Response200(new.id))]_vars

\* A second record was appended by a request without url and pathname, and
\* the open listener was told
C6_Witness ==
    /\ Len(prompts) = 2
    /\ prompts[2].url = JStr("") /\ prompts[2].pathname = JStr("/")
    /\ reply = HttpReply(Response200(prompts[2].id))
    /\ \E c \in sseClients : inbox[c][Len(inbox[c])] = ReceivedMsg(prompts[2].id)

\* C7, as claimed: a watch call returns the timeout result only if the queue
\* is empty at that moment.
C7_TimeoutOnlyWhenEmpty ==
    [][\A w \in Watchers :
          watch'[w].outcome = "timeout" /\ WatchStep(w) => prompts' = <<>>]_vars

\* C8: when a watch call returns a record, it is the front record of the
\* queue at that step, the same step removes it and leaves the records
\* behind it in their order, and the call has broadcast exactly one event,
\* processing, in that step.
C8_WatchPopsFront ==
    [][\A w \in Watchers :
          watch'[w].outcome = "prompt" /\ WatchStep(w) =>
              /\ prompts # <<>>
              /\ reply' = WatchReply(w, PromptText(Head(prompts)))
              /\ watch'[w].got = Head(prompts).obj
              /\ prompts' = Tail(prompts)
              /\ emitted' = <<StatusMsg("processing")>>
              /\ watch'[w].sent = 1]_vars

\* A call returned a record and left another one queued
C8_Witness ==
    \E w \in Watchers :
        /\ watch[w].outcome = "prompt"
        /\ reply[1] = "watch" /\ reply[2].kind = "prompt"
        /\ prompts # <<>>

\* C9: a watch call that has returned has exactly one outcome, a record or
\* the timeout result.  The one that returned a record removed one record
\* and the one that returned the timeout result removed none and broadcast
\* nothing, over all its polls.
C9_OneOutcome ==
    \A w \in Watchers :
        /\ watch[w].pc = "returned" <=> watch[w].outcome \in {"prompt", "timeout"}
        /\ watch[w].outcome = "prompt" =>
              watch[w].got # 0 /\ watch[w].took = 1
        /\ watch[w].outcome = "timeout" =>
              watch[w].got = 0 /\ watch[w].took = 0 /\ watch[w].sent = 0

\* One call timed out after sleeping while another took the record
C9_Witness ==
    \E v, w \in Watchers :
        /\ watch[v].outcome = "timeout"
        /\ watch[w].outcome = "prompt"
        /\ now >= WATCH_POLL_MS

\* The effective timeout of the claim, in milliseconds: the requested
\* seconds, at most 600, and 300 when the argument is absent or not a number
EffectiveTimeoutMs(arg) ==
    IF arg[1] = "number"
    THEN (IF arg[2] > 600 * 1000 THEN 600 * 1000 ELSE arg[2])
    ELSE 300 * 1000

Max0(n) == IF n < 0 THEN 0 ELSE n

\* C10, as claimed: against a queue that stays empty, a watch call returns
\* the timeout result no later than its effective timeout plus one poll
\* interval after it was called.
C10_TimeoutWithinBudget ==
    [][\A w \in Watchers :
          /\ \A arg \in TimeoutArgs :
                WatchCall(w, arg) /\ watch'[w].outcome = "timeout" =>
                    0 <= EffectiveTimeoutMs(arg) + WATCH_POLL_MS
          /\ WatchResume(w) /\ watch'[w].outcome = "timeout" =>
                now - watch[w].calledAt
                    <= EffectiveTimeoutMs(watch[w].arg) + WATCH_POLL_MS]_vars

\* C10, amended: the same, a negative effective timeout counting as zero.
\* A call is never still in flight at that time, and when it returns the
\* timeout result it does so by then.
C10_TimeoutWithinBudgetFromZero ==
    /\ [](\A w \in Watchers :
            watch[w].pc = "sleeping" =>
                /\ prompts = <<>>
                /\ now <= watch[w].wakeAt
                /\ watch[w].wakeAt - watch[w].calledAt
                      < Max0(EffectiveTimeoutMs(watch[w].arg)) + WATCH_POLL_MS)
    /\ [][\A w \in Watchers :
            /\ \A arg \in TimeoutArgs :
                  WatchCall(w, arg) /\ watch'[w].outcome = "timeout" =>
                      0 <= Max0(EffectiveTimeoutMs(arg)) + WATCH_POLL_MS
            /\ WatchResume(w) /\ watch'[w].outcome = "timeout" =>
                  now - watch[w].calledAt
                      <= Max0(EffectiveTimeoutMs(watch[w].arg)) + WATCH_POLL_MS]_vars

\* A call returned the timeout result 600 seconds or more into the run
C10_Witness ==
    /\ watch[ConsumerSlot].outcome = "timeout"
    /\ now >= WATCH_MAX_TIMEOUT_SEC * MS_PER_SEC
    /\ prompts = <<>>

\* The records handed to an invocation of the external agent
HandedToAgent ==
    UNION {burst.invocations[k].objs : k \in DOMAIN burst.invocations}

\* C3, as claimed: every record the batch runner's clear removes was in the
\* snapshot whose combined document went to the invocation before it; no
\* submitted prompt is removed without having been handed to an invocation.
C3_ClearedWereHandedOver ==
    \A r \in removed : r.by = "burst" => r.obj \in HandedToAgent

\* C11: get_prompt never changes the queue.  On a non-empty queue it returns
\* the front record's text with its provenance (the url, or the pathname
\* without one, and the time received) and broadcasts exactly one event,
\* processing; on an empty queue it returns the none-pending result and
\* broadcasts nothing.
C11_GetPromptReadsFront ==
    [][GetPrompt =>
          /\ prompts' = prompts
          /\ prompts # <<>> =>
                /\ reply'[1] = "tool"
                /\ reply'[2].kind = "prompt"
                /\ reply'[2].text = Head(prompts).prompt
                /\ reply'[2].source = IF Truthy(Head(prompts).url)
                                      THEN Head(prompts).url
                                      ELSE Head(prompts).pathname
                /\ reply'[2].received = LocaleTime(Head(prompts).timestamp)
                /\ emitted' = <<StatusMsg("processing")>>
          /\ prompts = <<>> =>
                /\ reply' = ToolReply(NoPendingText)
                /\ emitted' = <<>>]_vars

\* get_prompt returned the front of two different records, both still queued
C11_Witness ==
    /\ Len(prompts) = 2
    /\ prompts[1].prompt # prompts[2].prompt
    /\ reply = ToolReply(PromptText(prompts[1]))
    /\ emitted = <<StatusMsg("processing")>>

\* C12: clear, from any queue state, leaves the queue empty, broadcasts one
\* event, done, and reports the number of records that were queued just
\* before it; on an empty queue it reports that there was nothing to clear
\* (zero).  Only a submission makes the queue grow, so a clear that follows
\* a clear with no submission in between finds it empty and reports zero.
C12_ClearEmptiesAndCounts ==
    [][/\ Clear =>
             /\ prompts' = <<>>
             /\ emitted' = <<StatusMsg("done")>>
             /\ reply'[1] = "tool"
             /\ reply'[2].count = Len(prompts)
             /\ reply'[2].kind = IF Len(prompts) > 0 THEN "cleared"
                                 ELSE "nothing-to-clear"
       /\ Len(prompts') > Len(prompts) =>
             \E body \in Bodies : HttpPostPrompt(body, OneSuffix)]_vars

\* Clear removed two records and said so
C12_Witness ==
    /\ prompts = <<>>
    /\ reply[1] = "tool"
    /\ reply[2].kind = "cleared"
    /\ reply[2].count = Cardinality({r \in removed : r.by = "clear"})
    /\ reply[2].count > 1
    /\ emitted = <<StatusMsg("done")>>

\* The invocation the batch runner has just completed
LastInvocation(b) == b.invocations[Len(b.invocations)]

\* The records handed to the invocations before the one just completed
HandedBefore(b) ==
    UNION {b.invocations[k].objs : k \in 1..(Len(b.invocations) - 1)}

\* C13: from the poll that finds the queue non-empty to the end of the
\* window, records are only appended to the queue; when the window closes
\* the snapshot is the whole queue, in submission order; it stays fixed
\* while the agent runs; the one invocation made for it gets a combined
\* document with one section per record of the snapshot, in that order,
\* each with the record's pathname and prompt; none of these records was in
\* an earlier invocation; and the queue is empty when the invocation
\* completes.
C13_WindowGoesToOneInvocation ==
    [][/\ burst.pc = "window" =>
             /\ IsPrefix(prompts, prompts')
             /\ prompts # <<>>
             /\ burst'.pc \in {"window", "running"}
       /\ burst.pc = "window" /\ burst'.pc = "running" =>
             /\ burst'.snapshot = prompts
             /\ \A i, j \in 1..Len(prompts) :
                   i < j => prompts[i].obj < prompts[j].obj
       /\ burst.pc = "running" /\ burst'.pc = "running" =>
             burst'.snapshot = burst.snapshot
       /\ burst.pc # "running" => burst'.invocations = burst.invocations
       /\ burst.pc = "running" /\ burst'.pc # "running" =>
             LET inv == LastInvocation(burst')
                 snap == burst.snapshot
             IN  /\ burst'.invocations = Append(burst.invocations, inv)
                 /\ inv.objs = Objs(snap)
                 /\ inv.objs \cap HandedBefore(burst') = {}
                 /\ inv.fullPrompt.count = Len(snap)
                 /\ DOMAIN inv.fullPrompt.sections = 1..Len(snap)
                 /\ \A i \in 1..Len(snap) :
                       inv.fullPrompt.sections[i] =
                           [n |-> i, pathname |-> snap[i].pathname,
                            prompt |-> snap[i].prompt]
                 /\ prompts' = <<>>]_vars

\* The agent runs on a snapshot of two records, the second submitted after
\* the poll that opened the window
C13_Witness ==
    /\ burst.pc = "running"
    /\ Len(burst.snapshot) = 2
    /\ burst.snapshot[1].timestamp <= burst.openedAt
    /\ burst.snapshot[2].timestamp > burst.openedAt
    /\ burst.snapshot[1].pathname # burst.snapshot[2].pathname

\* The step is one of the batch runner's callbacks
RunnerStep ==
    BurstPoll \/ BurstWindowStep \/ \E outcome \in AgentOutcomes : AgentFinish(outcome)

RecordIds == 1..MaxPrompts

\* The last invocation completed has failed
LastInvocationFailed ==
    burst.invocations # <<>> /\ ~LastInvocation(burst).success

C16_AtMostOneInvocation ==
    /\ \A j, k \in DOMAIN burst.invocations :
          j # k => burst.invocations[j].objs \cap burst.invocations[k].objs = {}
    /\ \A k \in DOMAIN burst.invocations :
          Len(burst.invocations[k].fullPrompt.sections)
              = Cardinality(burst.invocations[k].objs)
    /\ Objs(prompts) \cap HandedToAgent = {}
    /\ Objs(burst.snapshot) \cap HandedToAgent = {}

\* A failed batch of one record, and a second batch with the next record
\* in progress
C16_Witness ==
    /\ Len(burst.invocations) = 1
    /\ ~burst.invocations[1].success
    /\ burst.invocations[1].objs # {}
    /\ burst.pc = "running"
    /\ burst.snapshot # <<>>

\* C17: every broadcast writes the same messages, in the same order, to
\* every connection that is in the listener set when it is made, and to no
\* other: after an accepted submission each open connection has received,
\* as its last message, the status event received with the new record's id.
C17_SameEventToEveryListener ==
    [][/\ \A c \in sseClients \cap sseClients' :
             inbox'[c] = inbox[c] \o emitted'
       /\ \A c \in Clients \ (sseClients \cup sseClients') :
             inbox'[c] = inbox[c]
       /\ \A body \in EventBodies :
             HasTextPrompt(body) /\ PostStep(body) =>
                 \A c \in sseClients :
                     inbox'[c] =
                         Append(inbox[c], ReceivedMsg(prompts'[Len(prompts')].id))]_vars

\* Two connections, opened at different times, both got the received event
\* of the second record
C17_Witness ==
    /\ sseClients = Clients
    /\ Len(prompts) = 2
    /\ prompts[1].id # prompts[2].id
    /\ \A c \in Clients : inbox[c][Len(inbox[c])] = ReceivedMsg(prompts[2].id)
    /\ \E c, d \in Clients : Len(inbox[c]) < Len(inbox[d])

\* The messages of a connection are the connected acknowledgement followed
\* by status events only
AckFirst(box) ==
    /\ box # <<>>
    /\ box[1] = ConnectedMsg
    /\ \A i \in 2..Len(box) : box[i].event = "status"

\* C18: the listener set changes only when a connection is opened, which
\* adds that connection, or when its close callback runs, which removes
\* that connection and no other.  A connection gets the connected
\* acknowledgement as its first message, then every event broadcast while
\* it is in the set, in order, and nothing once it is out of the set.  A
\* slot that was never connected has received nothing.
C18_ListenersAreOpenConnections ==
    /\ [](\A c \in Clients :
            /\ c \in sseClients => AckFirst(inbox[c])
            /\ inbox[c] # <<>> => AckFirst(inbox[c]))
    /\ [][/\ \A c \in Clients :
                /\ HttpGetEvents(c) =>
                      /\ c \notin sseClients
                      /\ sseClients' = sseClients \cup {c}
                      /\ inbox'[c] = <<ConnectedMsg>>
                /\ SseClose(c) =>
                      /\ c \in sseClients
                      /\ sseClients' = sseClients \ {c}
                      /\ inbox' = inbox
                /\ c \in sseClients /\ c \in sseClients' =>
                      inbox'[c] = inbox[c] \o emitted'
                /\ c \notin sseClients /\ c \notin sseClients' =>
                      inbox'[c] = inbox[c]
          /\ sseClients' # sseClients =>
                \E c \in Clients : HttpGetEvents(c) \/ SseClose(c)]_vars

\* A connection got its acknowledgement and an event and was closed; an
\* event broadcast later reached the connection still open, and not this one
C18_Witness ==
    \E c \in Clients \ sseClients, d \in sseClients :
        /\ Len(inbox[c]) > 1
        /\ Len(inbox[d]) > 1
        /\ \A i \in 1..Len(inbox[c]) : inbox[c][i] # inbox[d][Len(inbox[d])]

\* C19, as claimed: in burst mode as in interactive mode, an accepted
\* POST /prompt broadcasts one received event with the new record's id and
\* answers 200 with success and that id.
C19_BurstSubmitAsInteractive ==
    [][\A body \in BurstBodies :
          HasTextPrompt(body) /\ BurstPostPrompt(body, OneSuffix) =>
              LET new == prompts'[Len(prompts')]
              IN  /\ emitted' = <<ReceivedMsg(new.id)>>
                  /\ reply' = HttpReply(Response200(new.id))]_vars

\* C20, as claimed: when the port is in use, startup is fatal: the process
\* exits and the MCP server is never connected without a bound HTTP
\* listener.
C20_PortInUseIsFatal ==
    /\ boot.mcp = "connected" => boot.http = "listening"
    /\ boot.http \in {"in-use", "error"} => boot.proc = "exited"

\* C21, as claimed: the ids of the records ever created are pairwise
\* distinct, those of removed records and of records created within one
\* millisecond included, and no two records in the queue share an id.
C21_IdsDistinct ==
    /\ \A i, j \in DOMAIN added : i # j => added[i].id # added[j].id
    /\ \A i, j \in DOMAIN prompts : i # j => prompts[i].id # prompts[j].id

C23_QueriesReadOnly ==
    [][/\ HttpGetHealth =>
             /\ prompts' = prompts
             /\ sseClients' = sseClients
             /\ inbox' = inbox
             /\ emitted' = <<>>
             /\ reply'[1] = "http"
             /\ reply'[2].status = 200
             /\ reply'[2].pending = Len(prompts)
       /\ ListPending =>
             /\ prompts' = prompts
             /\ sseClients' = sseClients
             /\ inbox' = inbox
             /\ emitted' = <<>>
             /\ reply'[1] = "tool"
             /\ prompts = <<>> => reply'[2] = NoPendingListText
             /\ prompts # <<>> =>
                   /\ reply'[2].kind = "list"
                   /\ DOMAIN reply'[2].items = 1..Len(prompts)
                   /\ \A i \in 1..Len(prompts) :
                         reply'[2].items[i] =
                             [n |-> i, pathname |-> prompts[i].pathname,
                              chars |-> Len(prompts[i].prompt[2]),
                              received |-> LocaleTime(prompts[i].timestamp)]]_vars

\* Two records from different pages, received at different times, were
\* listed in queue order with a listener connected, and are still queued
C23_Witness ==
    /\ Len(prompts) = 2
    /\ prompts[1].pathname # prompts[2].pathname
    /\ LocaleTime(prompts[1].timestamp) # LocaleTime(prompts[2].timestamp)
    /\ sseClients # {}
    /\ reply = ToolReply(PendingListText(prompts))

\* C24: with a consumer that keeps calling watch with a positive timeout
\* and calls no other tool, every record that enters the queue is
\* eventually the record a watch call returns; and a watch call made while
\* the queue holds records returns the front record in the callback of the
\* call itself, without sleeping, and removes it.
C24_WatchDrainsQueue ==
    /\ [][\A arg \in PositiveTimeoutArgs :
             prompts # <<>> /\ KeepWatching(arg) =>
                 /\ watch'[ConsumerSlot].pc = "returned"
                 /\ watch'[ConsumerSlot].outcome = "prompt"
                 /\ watch'[ConsumerSlot].got = Head(prompts).obj
                 /\ reply' = WatchReply(ConsumerSlot, PromptText(Head(prompts)))
                 /\ prompts' = Tail(prompts)
                 /\ now' = now]_vars
    /\ \A o \in RecordIds :
          (o \in Objs(prompts)) ~> (o \in Range(delivered))

\* A call that was asleep returned the first record and the next call
\* returned the second, which was queued behind it, at the same time
C24_Witness ==
    /\ delivered = <<1, 2>>
    /\ prompts = <<>>
    /\ now >= WATCH_POLL_MS
    /\ watch[ConsumerSlot].outcome = "prompt"
    /\ watch[ConsumerSlot].got = 2

=============================================================================
